---- MODULE Spec2Model ----
(***************************************************************************)
(* cargo-depsize (src/main.rs): the size report of a package's direct      *)
(* dependencies.  Three specifications share the module:                   *)
(*   Spec        run() / calculate_and_display_depsize: resolve, one size  *)
(*               task per resolved package, the join loop, the selection   *)
(*               of the latest version per dependency name, the report;    *)
(*   SpecWalk    calculate_package_size, one walk entry per step;          *)
(*   SpecFormat  format_size on byte counts around its thresholds.         *)
(***************************************************************************)
EXTENDS Integers, Sequences, FiniteSets, TLC

VARIABLES
    pc,             \* where run() is: "start", "spawn", "join", "exit"
    packages,       \* workspace_resolve.pkg_set.packages(): set of PackageId
    root_deps,      \* root_package.dependencies(): per [name, kind], its count
    task,           \* per package, its task in the JoinSet
    result,         \* per package, what its task returned
    join_q,         \* finished tasks not yet handed out by join_next, oldest first
    package_sizes,  \* HashMap<PackageId, u64>
    spawn_count,    \* per package, the number of join_set.spawn calls
    insert_count,   \* per package, the number of package_sizes.insert calls
    package_infos,  \* Vec<(String, u64)>, once sorted
    sum,            \* the running total of the row sizes
    stdout,         \* the lines printed, in order
    stderr,         \* the messages written to the error stream
    exit_code,      \* the process's exit status, -1 while it runs
    walk_tree,      \* SpecWalk: the directory's entries, in traversal order
    walk_todo,      \* SpecWalk: the entries the walker has yet to yield
    total_size,     \* SpecWalk: the accumulator [kind, size, logged]
    fmt_in,         \* SpecFormat: the byte count
    fmt_out         \* SpecFormat: <<format_size(fmt_in)>> once formatted

vars == <<pc, packages, root_deps, task, result, join_q, package_sizes,
          spawn_count, insert_count, package_infos, sum, stdout, stderr, exit_code,
          walk_tree, walk_todo, total_size, fmt_in, fmt_out>>

reportVars == <<pc, packages, root_deps, task, result, join_q, package_sizes,
                spawn_count, insert_count, package_infos, sum, stdout, stderr, exit_code>>

walkVars == <<walk_tree, walk_todo, total_size>>

fmtVars == <<fmt_in, fmt_out>>

(***************************************************************************)
(* Bounds.                                                                 *)
(***************************************************************************)
\* resolved packages, the root package among them
MaxPkgs == 3
\* dependency declarations in the root manifest
MaxDeps == 2
\* entries under the root path in SpecWalk
MaxEntries == 3
\* byte length of a file
MaxFileLen == 2
\* byte counts tried on each side of a format_size threshold
FmtWindow == 12

(***************************************************************************)
(* format_size                                                             *)
(***************************************************************************)
KB == 1024

MB == KB * 1024

GB == MB * 1024

\* {:.2} of size / unit, in hundredths: the quotient is exact in f64 for the
\* byte counts tried here, and the decimal is rounded half to even.
Hundredths(size, unit) ==
    LET q  == size \div unit
        r  == size % unit
        h  == (r * 100) \div unit
        rr == (r * 100) % unit
        up == \/ 2 * rr > unit
              \/ 2 * rr = unit /\ h % 2 = 1
    IN  q * 100 + h + (IF up THEN 1 ELSE 0)

\* A faulty variant of format_size with exclusive thresholds.
FormatSizeOffByOne(size) ==
    IF size > GB THEN [unit |-> "GB", number |-> Hundredths(size, GB), paren |-> <<size>>]
    ELSE IF size > MB THEN [unit |-> "MB", number |-> Hundredths(size, MB), paren |-> <<size>>]
    ELSE IF size > KB THEN [unit |-> "KB", number |-> Hundredths(size, KB), paren |-> <<size>>]
    ELSE [unit |-> "bytes", number |-> size, paren |-> <<>>]

\* The string as its parts: the number shown before the unit (hundredths
\* for KB, MB, GB; the count itself for bytes) and the parenthetical.
format_size(size) ==
    IF size >= GB THEN [unit |-> "GB", number |-> Hundredths(size, GB), paren |-> <<size>>]
    ELSE IF size >= MB THEN [unit |-> "MB", number |-> Hundredths(size, MB), paren |-> <<size>>]
    ELSE IF size >= KB THEN [unit |-> "KB", number |-> Hundredths(size, KB), paren |-> <<size>>]
    ELSE [unit |-> "bytes", number |-> size, paren |-> <<>>]

(***************************************************************************)
(* calculate_package_size                                                  *)
(***************************************************************************)
\* What the file system holds under a root path.  res is the walker's
\* Result for the entry, ftype its file_type() ("none": no file type, the
\* unwrap panics), meta_ok whether fs::metadata succeeds, ignored whether
\* an ignore rule matches it.
Entry(res, ftype, len, meta_ok, ignored) ==
    [res |-> res, ftype |-> ftype, len |-> len, meta_ok |-> meta_ok, ignored |-> ignored]

Entries ==
    {Entry("ok", "file", n, TRUE, FALSE) : n \in 1..MaxFileLen}
    \cup {Entry("ok", "file", 1, FALSE, FALSE),
          Entry("ok", "file", 1, TRUE, TRUE),
          Entry("ok", "dir", 1, TRUE, FALSE),
          Entry("ok", "symlink", 1, TRUE, FALSE),
          Entry("err", "file", 1, TRUE, FALSE),
          Entry("ok", "none", 1, TRUE, FALSE)}

TreesUpTo(n) == UNION {[1..k -> Entries] : k \in 0..n}

\* The package roots of Spec: empty, or holding one entry.
PkgTrees == {<<>>} \cup {<<e>> : e \in Entries}

\* ignore::WalkBuilder::new(package_path).build(): ignored entries are never yielded
Walker(tree) == SelectSeq(tree, LAMBDA e : ~e.ignored)

WalkStart == [kind |-> "ok", size |-> 0, logged |-> 0]

\* A faulty variant of WalkEntry that returns the walker's error (entry?).
WalkEntryReturnsErr(acc, e) ==
    IF acc.kind # "ok" THEN acc
    ELSE IF e.res = "err" THEN [acc EXCEPT !.kind = "err"]
    ELSE IF e.ftype = "none" THEN [acc EXCEPT !.kind = "panic"]
    ELSE IF e.ftype = "file"
         THEN IF e.meta_ok THEN [acc EXCEPT !.size = @ + e.len]
              ELSE [acc EXCEPT !.kind = "err"]
    ELSE acc

\* One iteration of the loop over the walker.
WalkEntry(acc, e) ==
    IF acc.kind # "ok" THEN acc
    ELSE IF e.res = "err" THEN [acc EXCEPT !.logged = @ + 1]
    ELSE IF e.ftype = "none" THEN [acc EXCEPT !.kind = "panic"]
    ELSE IF e.ftype = "file"
         THEN IF e.meta_ok THEN [acc EXCEPT !.size = @ + e.len]
              ELSE [acc EXCEPT !.kind = "err"]
    ELSE acc

RECURSIVE WalkFrom(_, _)
WalkFrom(acc, todo) ==
    IF todo = <<>> THEN acc ELSE WalkFrom(WalkEntry(acc, Head(todo)), Tail(todo))

calculate_package_size(tree) == WalkFrom(WalkStart, Walker(tree))

(***************************************************************************)
(* The resolved package set and the root manifest                          *)
(***************************************************************************)
\* semver::Version: pre = 0 is a release, pre = k > 0 its k-th pre-release
Version(major, minor, patch, pre) ==
    [major |-> major, minor |-> minor, patch |-> patch, pre |-> pre]

Names == {"a", "b"}

PackageId(name, version) == [name |-> name, version |-> version]

\* The root package is a member of the resolved set: it is sized like the rest.
RootId == PackageId("root", Version(0, 2, 1, 0))

\* "a" resolves to any of 0.2.1 < 1.0.0-alpha < 1.0.0, "b" to 0.2.1.
PackageIds ==
    {PackageId("a", v) : v \in {Version(0, 2, 1, 0), Version(1, 0, 0, 1), Version(1, 0, 0, 0)}}
    \cup {PackageId("b", Version(0, 2, 1, 0))}

\* What the resolution may add to the root package.
PackageSets == {ps \in SUBSET PackageIds : Cardinality(ps) < MaxPkgs}

DepKinds == {"Normal", "Development", "Build"}

Dependency(name, kind) == [name |-> name, kind |-> kind]

Declarations == {Dependency(n, kd) : n \in Names, kd \in DepKinds}

\* The number of declarations a dependency list holds.
RECURSIVE CountAll(_, _)
CountAll(deps, ds) ==
    IF ds = {} THEN 0
    ELSE LET d == CHOOSE x \in ds : TRUE IN deps[d] + CountAll(deps, ds \ {d})

\* root_package.dependencies(), up to the order of the list, which the code
\* never reads: how many times each (name, kind) is declared (once plainly,
\* once more in a target-specific table).
AllDepLists ==
    {deps \in [Declarations -> 0..MaxDeps] : CountAll(deps, Declarations) <= MaxDeps}

DepLists(names) ==
    {deps \in AllDepLists : \A d \in Declarations : deps[d] > 0 => d.name \in names}

NoDeps == [d \in Declarations |-> 0]

\* Ord for semver::Version, the key of max_by_key: major, minor, patch, then
\* the pre-release, a pre-release ordered before its release.
VersionLess(v, w) ==
    \/ v.major < w.major
    \/ v.major = w.major /\ v.minor < w.minor
    \/ v.major = w.major /\ v.minor = w.minor /\ v.patch < w.patch
    \/ /\ v.major = w.major /\ v.minor = w.minor /\ v.patch = w.patch
       /\ \/ v.pre # 0 /\ w.pre = 0
          \/ v.pre # 0 /\ w.pre # 0 /\ v.pre < w.pre

\* A faulty variant of NormalDepNames that keeps the declarations of every kind.
AllDepNames(deps) == {d.name : d \in {x \in Declarations : deps[x] > 0}}

\* dep_names: the names of the Normal-kind declarations, collected in a HashSet
NormalDepNames(deps) ==
    {d.name : d \in {x \in Declarations : deps[x] > 0 /\ x.kind = "Normal"}}

\* A faulty variant of LatestOf that keeps every resolved version of the name.
EveryVersionOf(pkgs, name) == {p \in pkgs : p.name = name}

\* .filter(|pkg| pkg.name() == name).max_by_key(|pkg| pkg.version()): the set
\* holding the maximum, empty when no resolved package has the name.
LatestOf(pkgs, name) ==
    LET named == {p \in pkgs : p.name = name}
    IN  {p \in named : \A q \in named : ~VersionLess(p.version, q.version)}

\* latest_versions: HashSet<PackageId>
LatestVersions(pkgs, deps) ==
    UNION {LatestOf(pkgs, name) : name \in NormalDepNames(deps)}

(***************************************************************************)
(* The report                                                              *)
(***************************************************************************)
\* The orders a HashSet may be iterated in.
Orders(S) ==
    {o \in [1..Cardinality(S) -> S] : \A i, j \in DOMAIN o : o[i] = o[j] => i = j}

\* A faulty variant of InsertSize of a map keyed by the package name.
InsertSizeByName(sizes, id, size) ==
    [q \in DOMAIN sizes \cup {id} |-> IF q.name = id.name THEN size ELSE sizes[q]]

\* package_sizes.insert(package_id, size)
InsertSize(sizes, id, size) ==
    [q \in DOMAIN sizes \cup {id} |-> IF q = id THEN size ELSE sizes[q]]

\* The loop over latest_versions: a row for each identity the map holds
\* (pkg_set.get_one of a package the set has already yielded is Ok).
RECURSIVE Rows(_, _)
Rows(order, sizes) ==
    IF order = <<>> THEN <<>>
    ELSE LET id == Head(order)
             rest == Rows(Tail(order), sizes)
         IN  IF id \in DOMAIN sizes
             THEN <<[id |-> id, size |-> sizes[id]]>> \o rest
             ELSE rest

\* A faulty variant of SumOf that leaves the last row out.
RECURSIVE SumButLast(_)
SumButLast(rows) ==
    IF Len(rows) <= 1 THEN 0 ELSE Head(rows).size + SumButLast(Tail(rows))

\* sum += size, over the rows pushed (u64; the sizes here stay far below 2^64)
RECURSIVE SumOf(_)
SumOf(rows) ==
    IF rows = <<>> THEN 0 ELSE Head(rows).size + SumOf(Tail(rows))

\* Stable insertion of a row behind the rows whose size is not greater.
RECURSIVE InsertRow(_, _)
InsertRow(sorted, row) ==
    IF sorted = <<>> THEN <<row>>
    ELSE IF Head(sorted).size <= row.size
         THEN <<Head(sorted)>> \o InsertRow(Tail(sorted), row)
         ELSE <<row>> \o sorted

RECURSIVE SortFrom(_, _)
SortFrom(sorted, rows) ==
    IF rows = <<>> THEN sorted ELSE SortFrom(InsertRow(sorted, Head(rows)), Tail(rows))

\* A faulty variant of SortBySize that leaves the rows in the order they were pushed.
Unsorted(rows) == rows

\* package_infos.sort_by_key(|k| k.1): a stable sort, ascending
SortBySize(rows) == SortFrom(<<>>, rows)

\* println!("{: <25} : {}", name_ver, format_size(size))
RowLine(row) ==
    [kind |-> "row", label |-> <<row.id.name, row.id.version>>, text |-> format_size(row.size)]

\* println!("> Total size: {}", format_size(sum))
TotalLine(total) ==
    [kind |-> "total", label |-> <<>>, text |-> format_size(total)]

\* The messages of the error stream.
MainError == [src |-> "main", name |-> "Error: "]

PanicMessage == [src |-> "panic", name |-> "Failed to join"]

TaskFailed(id) == [src |-> "task", name |-> id.name]

WalkLog(id) == [src |-> "walk", name |-> id.name]

(***************************************************************************)
(* Spec: run() and calculate_and_display_depsize                           *)
(***************************************************************************)
Init ==
    /\ pc = "start"
    /\ packages = {}
    /\ root_deps = NoDeps
    /\ task = <<>>
    /\ result = <<>>
    /\ join_q = <<>>
    /\ package_sizes = <<>>
    /\ spawn_count = <<>>
    /\ insert_count = <<>>
    /\ package_infos = <<>>
    /\ sum = 0
    /\ stdout = <<>>
    /\ stderr = {}
    /\ exit_code = -1
    /\ walk_tree = <<>>
    /\ walk_todo = <<>>
    /\ total_size = WalkStart
    /\ fmt_in = 0
    /\ fmt_out = <<>>

\* run() returns Err: main prints it and exits with status 1
ExitWithError ==
    /\ pc' = "exit"
    /\ stderr' = stderr \cup {MainError}
    /\ exit_code' = 1

\* GlobalContext::default()?, find_root_manifest_for_wd(..)?, Workspace::new(..)?,
\* RustcTargetData::new(..)?, resolve_ws_with_opts(..)?: one of them fails
ResolveError ==
    /\ pc = "start"
    /\ ExitWithError
    /\ UNCHANGED <<packages, root_deps, task, result, join_q, package_sizes,
                   spawn_count, insert_count, package_infos, sum, stdout,
                   walkVars, fmtVars>>

\* The resolution succeeds: the resolved set holds the root package and the
\* packages of its dependency closure.
Resolve ==
    /\ pc = "start"
    /\ \E ps \in PackageSets : packages' = ps \cup {RootId}
    /\ task' = [p \in packages' |-> "unspawned"]
    /\ result' = [p \in packages' |-> [kind |-> "none", size |-> 0]]
    /\ spawn_count' = [p \in packages' |-> 0]
    /\ insert_count' = [p \in packages' |-> 0]
    /\ pc' = "spawn"
    /\ UNCHANGED <<root_deps, join_q, package_sizes, package_infos, sum, stdout,
                   stderr, exit_code, walkVars, fmtVars>>

\* for package in packages { join_set.spawn(..) }: one iteration
Spawn(p) ==
    /\ pc = "spawn"
    /\ task[p] = "unspawned"
    /\ task' = [task EXCEPT ![p] = "running"]
    /\ spawn_count' = [spawn_count EXCEPT ![p] = @ + 1]
    /\ pc' = IF \A q \in packages : task'[q] # "unspawned" THEN "join" ELSE "spawn"
    /\ UNCHANGED <<packages, root_deps, result, join_q, package_sizes, insert_count,
                   package_infos, sum, stdout, stderr, exit_code, walkVars, fmtVars>>

\* What the spawned future writes to the error stream for a walk result.
TaskMessages(p, r) ==
    (IF r.logged > 0 THEN {WalkLog(p)} ELSE {})
    \cup (IF r.kind = "err" THEN {TaskFailed(p)} ELSE {})
    \cup (IF r.kind = "panic" THEN {[src |-> "panic", name |-> p.name]} ELSE {})

\* The spawned future runs to its end on a worker: it walks the package root
\* as the file system holds it then, and its output waits in the JoinSet.
TaskRun(p) ==
    /\ pc \in {"spawn", "join"}
    /\ task[p] = "running"
    /\ \E tree \in PkgTrees :
          LET r == calculate_package_size(tree)
          IN  /\ result' = [result EXCEPT ![p] = [kind |-> r.kind, size |-> r.size]]
              /\ stderr' = stderr \cup TaskMessages(p, r)
    /\ task' = [task EXCEPT ![p] = "finished"]
    /\ join_q' = Append(join_q, p)
    /\ UNCHANGED <<pc, packages, root_deps, package_sizes, spawn_count, insert_count,
                   package_infos, sum, stdout, exit_code, walkVars, fmtVars>>

\* A faulty variant of JoinSetEmpty that holds as soon as no output is waiting.
NothingToJoin == join_q = <<>>

\* join_next() returns None: no task is left in the JoinSet
JoinSetEmpty == \A p \in packages : task[p] = "joined"

\* A faulty variant of JoinNext that takes only a task's Ok (if let Ok(..) = res?)
\* and goes on with the loop after an Err.
JoinNextSkipsErr ==
    /\ pc = "join"
    /\ join_q # <<>>
    /\ LET p == Head(join_q)
           r == result[p]
       IN  \/ /\ r.kind = "panic"
              /\ ExitWithError
              /\ UNCHANGED <<task, package_sizes, insert_count>>
           \/ /\ r.kind = "err"
              /\ task' = [task EXCEPT ![p] = "joined"]
              /\ UNCHANGED <<pc, stderr, exit_code, package_sizes, insert_count>>
           \/ /\ r.kind = "ok"
              /\ task' = [task EXCEPT ![p] = "joined"]
              /\ package_sizes' = InsertSize(package_sizes, p, r.size)
              /\ insert_count' = [insert_count EXCEPT ![p] = @ + 1]
              /\ UNCHANGED <<pc, stderr, exit_code>>
    /\ join_q' = Tail(join_q)
    /\ UNCHANGED <<packages, root_deps, result, spawn_count, package_infos, sum,
                   stdout, walkVars, fmtVars>>

\* while let Some(res) = join_set.join_next().await: one iteration, on the
\* output that has waited longest.
\*   res?                      a JoinError (the task panicked): run() returns it
\*   .expect("Failed to join") on the task's own Result: an Err panics, and
\*                             the process ends with the panic's status, 101
\*   package_sizes.insert(..)  on Ok
JoinNext ==
    /\ pc = "join"
    /\ join_q # <<>>
    /\ LET p == Head(join_q)
           r == result[p]
       IN  \/ /\ r.kind = "panic"
              /\ ExitWithError
              /\ UNCHANGED <<task, package_sizes, insert_count>>
           \/ /\ r.kind = "err"
              /\ pc' = "exit"
              /\ stderr' = stderr \cup {PanicMessage}
              /\ exit_code' = 101
              /\ UNCHANGED <<task, package_sizes, insert_count>>
           \/ /\ r.kind = "ok"
              /\ task' = [task EXCEPT ![p] = "joined"]
              /\ package_sizes' = InsertSize(package_sizes, p, r.size)
              /\ insert_count' = [insert_count EXCEPT ![p] = @ + 1]
              /\ UNCHANGED <<pc, stderr, exit_code>>
    /\ join_q' = Tail(join_q)
    /\ UNCHANGED <<packages, root_deps, result, spawn_count, package_infos, sum,
                   stdout, walkVars, fmtVars>>

\* The rows printed for a sorted vector, then the total line.
RECURSIVE PrintRows(_)
PrintRows(infos) ==
    IF infos = <<>> THEN <<>> ELSE <<RowLine(Head(infos))>> \o PrintRows(Tail(infos))

\* The loop has ended (lines 157-208; no task is left to run beside it):
\* read the root's declarations, select the latest versions, build, sort and
\* print the rows and the total, return Ok(()): main returns, status 0.
\* Every declared dependency, of any kind, has a resolved package of its
\* name: all features are enabled, the dev units included and all targets
\* forced, and the resolution fails otherwise.
Report ==
    /\ pc = "join"
    /\ JoinSetEmpty
    /\ \E deps \in DepLists({p.name : p \in packages \ {RootId}}) :
          /\ root_deps' = deps
          /\ \E order \in Orders(LatestVersions(packages, deps)) :
                LET rows == Rows(order, package_sizes)
                IN  /\ package_infos' = SortBySize(rows)
                    /\ sum' = SumOf(rows)
    /\ stdout' = PrintRows(package_infos') \o <<TotalLine(sum')>>
    /\ pc' = "exit"
    /\ exit_code' = 0
    /\ UNCHANGED <<packages, task, result, join_q, package_sizes,
                   spawn_count, insert_count, stderr, walkVars, fmtVars>>

Next ==
    \/ ResolveError
    \/ Resolve
    \/ \E p \in packages : Spawn(p)
    \/ \E p \in packages : TaskRun(p)
    \/ JoinNext
    \/ Report

Spec == Init /\ [][Next]_vars

InitWalk ==
    /\ walk_tree \in TreesUpTo(MaxEntries)
    /\ walk_todo = Walker(walk_tree)
    /\ total_size = WalkStart
    /\ fmt_in = 0
    /\ fmt_out = <<>>
    /\ pc = "walk"
    /\ packages = {}
    /\ root_deps = NoDeps
    /\ task = <<>>
    /\ result = <<>>
    /\ join_q = <<>>
    /\ package_sizes = <<>>
    /\ spawn_count = <<>>
    /\ insert_count = <<>>
    /\ package_infos = <<>>
    /\ sum = 0
    /\ stdout = <<>>
    /\ stderr = {}
    /\ exit_code = -1

\* for entry in walker { ... }: the next entry, while the function has not returned
WalkNext ==
    /\ walk_todo # <<>>
    /\ total_size.kind = "ok"
    /\ total_size' = WalkEntry(total_size, Head(walk_todo))
    /\ walk_todo' = Tail(walk_todo)
    /\ UNCHANGED <<walk_tree, fmtVars, reportVars>>

NextWalk == WalkNext

SpecWalk == InitWalk /\ [][NextWalk]_vars

(***************************************************************************)
(* SpecFormat                                                              *)
(***************************************************************************)
FmtInputs ==
    UNION {{n \in (t - FmtWindow)..(t + FmtWindow) : n >= 0} : t \in {0, KB, MB, GB}}
    \cup {100, 1152, 1536}

InitFormat ==
    /\ fmt_in \in FmtInputs
    /\ fmt_out = <<>>
    /\ walk_tree = <<>>
    /\ walk_todo = <<>>
    /\ total_size = WalkStart
    /\ pc = "format"
    /\ packages = {}
    /\ root_deps = NoDeps
    /\ task = <<>>
    /\ result = <<>>
    /\ join_q = <<>>
    /\ package_sizes = <<>>
    /\ spawn_count = <<>>
    /\ insert_count = <<>>
    /\ package_infos = <<>>
    /\ sum = 0
    /\ stdout = <<>>
    /\ stderr = {}
    /\ exit_code = -1

Format ==
    /\ fmt_out = <<>>
    /\ fmt_out' = <<format_size(fmt_in)>>
    /\ UNCHANGED <<fmt_in, walkVars, reportVars>>

NextFormat == Format

SpecFormat == InitFormat /\ [][NextFormat]_vars

(***************************************************************************)
(* The properties                                                          *)
(***************************************************************************)
\* The exact byte count a formatted size shows.
ShownBytes(text) ==
    IF text.unit = "bytes" THEN text.number ELSE text.paren[1]

\* The report was printed and main returned.
Reported == pc = "exit" /\ exit_code = 0

\* The positions of stdout holding a row, and those holding a row of a name.
RowAt == {i \in DOMAIN stdout : stdout[i].kind = "row"}

RowsOf(name) == {i \in RowAt : stdout[i].label[1] = name}

\* The names the root manifest declares with kind Normal, read off root_deps.
DeclaredNormal ==
    {n \in Names : \E d \in Declarations : d.name = n /\ d.kind = "Normal" /\ root_deps[d] > 0}

\* Semantic-version precedence as the specification words it: major, minor,
\* patch, then a pre-release before its release (pre-releases by their tag).
SemverPrecedes(v, w) ==
    LET a == <<v.major, v.minor, v.patch>>
        b == <<w.major, w.minor, w.patch>>
    IN  \/ \E i \in 1..3 : a[i] < b[i] /\ \A j \in 1..(i - 1) : a[j] = b[j]
        \/ a = b /\ v.pre > 0 /\ (w.pre = 0 \/ v.pre < w.pre)

\* The sum of the byte counts the lines at the positions I show.
RECURSIVE ShownSum(_)
ShownSum(I) ==
    IF I = {} THEN 0
    ELSE LET i == CHOOSE x \in I : TRUE IN ShownBytes(stdout[i].text) + ShownSum(I \ {i})

\* C1: when the resolved set holds two or more versions of a Normal-declared
\* name, the report holds one row for the name, it is the row of the maximum
\* version among the resolved packages of the name, and its size is the size
\* that version's own task computed, in whatever order the tasks completed.
C1_LatestVersionRow ==
    Reported =>
        \A n \in DeclaredNormal :
            LET named == {p \in packages : p.name = n}
            IN  Cardinality(named) >= 2 =>
                    /\ Cardinality(RowsOf(n)) = 1
                    /\ \A i \in RowsOf(n) :
                          LET id == PackageId(n, stdout[i].label[2])
                          IN  /\ id \in named
                              /\ \A q \in named \ {id} : SemverPrecedes(q.version, id.version)
                              /\ ShownBytes(stdout[i].text) = result[id].size

\* Two resolved versions of "a" of different sizes, and the row of 1.0.0.
C1_Witness ==
    /\ Reported
    /\ "a" \in DeclaredNormal
    /\ {PackageId("a", Version(1, 0, 0, 1)), PackageId("a", Version(1, 0, 0, 0))} \subseteq packages
    /\ result[PackageId("a", Version(1, 0, 0, 1))].size = 2
    /\ result[PackageId("a", Version(1, 0, 0, 0))].size = 1
    /\ \E i \in RowsOf("a") :
          stdout[i].label[2] = Version(1, 0, 0, 0) /\ ShownBytes(stdout[i].text) = 1

\* C2: the report holds exactly one row for each name the root declares with
\* kind Normal, however many times the name is declared.
C2_OneRowPerName ==
    Reported => \A n \in DeclaredNormal : Cardinality(RowsOf(n)) = 1

\* "a" declared twice with kind Normal, two versions of it resolved.
C2_Witness ==
    /\ Reported
    /\ root_deps[Dependency("a", "Normal")] = 2
    /\ Cardinality({p \in packages : p.name = "a"}) = 2
    /\ Cardinality(RowsOf("a")) = 1

\* C3: the byte count of the total line is the sum of the byte counts of the
\* rows printed; with no Normal dependency the output is the total line
\* alone, "0 bytes".
C3_TotalIsSumOfRows ==
    Reported =>
        /\ Len(stdout) >= 1
        /\ stdout[Len(stdout)].kind = "total"
        /\ RowAt = 1..(Len(stdout) - 1)
        /\ ShownBytes(stdout[Len(stdout)].text) = ShownSum(RowAt)
        /\ DeclaredNormal = {} =>
              stdout = <<[kind |-> "total", label |-> <<>>,
                          text |-> [unit |-> "bytes", number |-> 0, paren |-> <<>>]]>>

\* Two rows of sizes 1 and 2 and the total 3.
C3_Witness ==
    /\ Reported
    /\ Len(stdout) = 3
    /\ ShownBytes(stdout[1].text) = 1
    /\ ShownBytes(stdout[2].text) = 2
    /\ stdout[3].text = [unit |-> "bytes", number |-> 3, paren |-> <<>>]

\* Some package's size computation failed: its task returned Err or panicked.
SizeFailed == \E p \in packages : result[p].kind \in {"err", "panic"}

\* C4: once the resolution has succeeded, a run in which a size computation
\* failed ends with nothing printed, the error printed by main with the
\* prefix "Error: " and status 1; a run without such a failure ends with
\* status 0.
C4_FailureExitsWithError ==
    (pc = "exit" /\ packages # {}) =>
        /\ SizeFailed => stdout = <<>> /\ MainError \in stderr /\ exit_code = 1
        /\ ~SizeFailed => exit_code = 0

\* C5: the rows are printed in non-decreasing order of their byte counts.
C5_RowsAscending ==
    Reported =>
        \A i, j \in RowAt : i < j => ShownBytes(stdout[i].text) <= ShownBytes(stdout[j].text)

\* The row of "b", 1 byte, printed before the row of "a", 2 bytes.
C5_Witness ==
    /\ Reported
    /\ Cardinality(RowAt) = 2
    /\ stdout[1].label[1] = "b" /\ ShownBytes(stdout[1].text) = 1
    /\ stdout[2].label[1] = "a" /\ ShownBytes(stdout[2].text) = 2

\* C7: every row is the row of a name declared with kind Normal, and the
\* total counts the rows alone: a name declared only with kind Development
\* or Build has no row and adds nothing to the total.
C7_OnlyNormalDeps ==
    Reported =>
        /\ \A i \in RowAt : stdout[i].label[1] \in DeclaredNormal
        /\ \A n \in Names \ DeclaredNormal : RowsOf(n) = {}
        /\ sum = ShownSum({i \in RowAt : stdout[i].label[1] \in DeclaredNormal})

\* "b" declared with kind Development only and sized 2 bytes: no row of it.
C7_Witness ==
    /\ Reported
    /\ root_deps[Dependency("b", "Development")] = 1
    /\ root_deps[Dependency("b", "Normal")] = 0
    /\ root_deps[Dependency("a", "Normal")] = 1
    /\ PackageId("b", Version(0, 2, 1, 0)) \in DOMAIN package_sizes
    /\ package_sizes[PackageId("b", Version(0, 2, 1, 0))] = 2
    /\ RowsOf("b") = {}
    /\ Cardinality(RowAt) = 1
    /\ sum = 1

\* C6: format_size takes the branch of the largest threshold among 0, 1024,
\* 1024^2 and 1024^3 that the byte count reaches, the threshold included; in
\* the KB, MB and GB branches the parenthetical is the exact count, and below
\* 1024 the output is the exact count and " bytes", with no parenthetical.
C6_FormatBranches ==
    fmt_out # <<>> =>
        LET n == fmt_in
            o == fmt_out[1]
        IN  /\ n < 1024 => o.unit = "bytes" /\ o.number = n /\ o.paren = <<>>
            /\ (1024 <= n /\ n < 1048576) => o.unit = "KB" /\ o.paren = <<n>>
            /\ (1048576 <= n /\ n < 1073741824) => o.unit = "MB" /\ o.paren = <<n>>
            /\ 1073741824 <= n => o.unit = "GB" /\ o.paren = <<n>>

\* format_size(1024) is "1.00KB (1024 bytes)".
C6_Witness ==
    /\ fmt_in = 1024
    /\ fmt_out = <<[unit |-> "KB", number |-> 100, paren |-> <<1024>>]>>

\* The entries of a tree the walk adds up: regular files no rule ignores.
Regular(tree) ==
    {i \in DOMAIN tree : tree[i].res = "ok" /\ tree[i].ftype = "file" /\ ~tree[i].ignored}

\* The entries of a tree for which the walker yields an error.
WalkErrors(tree) == {i \in DOMAIN tree : tree[i].res = "err" /\ ~tree[i].ignored}

\* The entries of a tree on which the function stops: a regular file whose
\* metadata cannot be read, an entry without a file type.
Fatal(tree) ==
    {i \in DOMAIN tree :
        /\ tree[i].res = "ok" /\ ~tree[i].ignored
        /\ \/ tree[i].ftype = "none"
           \/ tree[i].ftype = "file" /\ ~tree[i].meta_ok}

RECURSIVE LenSum(_, _)
LenSum(tree, I) ==
    IF I = {} THEN 0
    ELSE LET i == CHOOSE x \in I : TRUE IN tree[i].len + LenSum(tree, I \ {i})

\* C8: when no metadata read fails (and no entry lacks a file type), the walk
\* never stops early, whatever errors the walker yields, and ends with the
\* sum of the lengths of the regular files it yields, in whatever order;
\* each walker error is logged once and adds nothing.
C8_WalkSumsRegularFiles ==
    Fatal(walk_tree) = {} =>
        /\ total_size.kind = "ok"
        /\ walk_todo = <<>> =>
              /\ total_size.size = LenSum(walk_tree, Regular(walk_tree))
              /\ total_size.logged = Cardinality(WalkErrors(walk_tree))

\* A walker error, then a file of 2 bytes, then a directory: 2 bytes, 1 log.
C8_Witness ==
    /\ walk_tree = <<Entry("err", "file", 1, TRUE, FALSE),
                     Entry("ok", "file", 2, TRUE, FALSE),
                     Entry("ok", "dir", 1, TRUE, FALSE)>>
    /\ walk_todo = <<>>
    /\ total_size = [kind |-> "ok", size |-> 2, logged |-> 1]

\* C9 as stated: a run in which the size computation of a dependency's
\* package failed, its task returning Err to the join loop, still prints
\* the total line and surfaces no error.
C9_FailedRowSkippedSilently ==
    (pc = "exit" /\ \E p \in packages \ {RootId} : result[p].kind = "err") =>
        /\ exit_code = 0
        /\ stdout # <<>>
        /\ stdout[Len(stdout)].kind = "total"

\* C9 amended: a failed size computation ends the run in the join loop with
\* nothing printed; when the report is printed every task returned Ok, the
\* mapping holds every resolved package, and every name declared Normal has
\* its row: no row is skipped at the lookup.
C9_NoRowSkippedAtLookup ==
    /\ Reported =>
          /\ \A p \in packages : result[p].kind = "ok" /\ p \in DOMAIN package_sizes
          /\ Cardinality(RowAt) = Cardinality(DeclaredNormal)
    /\ (pc = "exit" /\ SizeFailed) => stdout = <<>> /\ exit_code # 0

\* The report of a run with "a" and "b" declared Normal and both sized.
C9_Witness ==
    /\ Reported
    /\ DeclaredNormal = {"a", "b"}
    /\ \A p \in packages : p \in DOMAIN package_sizes
    /\ Cardinality(RowAt) = 2

\* C10: one task is spawned per resolved package; nothing is printed before
\* every task has been joined; a task's result enters the mapping once, and
\* only when the join loop has taken it, never while the task is running or
\* waiting in the JoinSet; the mapping of a printed report holds every
\* resolved package.
C10_FanOutFanIn ==
    /\ \A p \in packages :
          /\ spawn_count[p] <= 1
          /\ spawn_count[p] = 1 <=> task[p] # "unspawned"
          /\ insert_count[p] <= 1
          /\ insert_count[p] = 1 <=> p \in DOMAIN package_sizes
          /\ p \in DOMAIN package_sizes => task[p] = "joined" /\ package_sizes[p] = result[p].size
    /\ pc = "join" => \A p \in packages : spawn_count[p] = 1
    /\ stdout # <<>> => join_q = <<>> /\ \A p \in packages : task[p] = "joined"
    /\ Reported => DOMAIN package_sizes = packages

\* A printed report of a run with three resolved packages.
C10_Witness ==
    /\ Reported
    /\ Cardinality(packages) = 3
    /\ \A p \in packages : spawn_count[p] = 1 /\ insert_count[p] = 1

====
